---- MODULE Spec2Model ----
(***************************************************************************)
(* carosels/parsers/parser.py: filename sanitizer, collision resolver,     *)
(* bulk rename and carousel emitter, as a state machine over a small       *)
(* filesystem.  Strings are sequences of one-character strings.  pathlib   *)
(* is modelled as PurePosixPath of CPython 3.9 - 3.13.                     *)
(***************************************************************************)
EXTENDS Integers, Sequences, FiniteSets, TLC

VARIABLES
    arg, res1, res2, pcSan,                  \* sanitize_filename applied once and twice
    upExists, upTarget, upResult, pcUp,      \* unique_path applied to one directory
    photosKind, dir, folderName,             \* the photos folder
    outDirKind, outEntry, outFiles,          \* the output directory
    op, err, ret, pre, log, calls            \* the last call, its outcome, the state before it

sanVars == <<arg, res1, res2, pcSan>>
upVars == <<upExists, upTarget, upResult, pcUp>>
fsVars == <<photosKind, dir, folderName, outDirKind, outEntry, outFiles>>
callVars == <<op, err, ret, pre, log, calls>>
vars == <<sanVars, upVars, fsVars, callVars>>

----------------------------------------------------------------------------
(* Bounds *)
MaxLen == 4
MaxCollide == 4
MaxFiles == 3
MaxCalls == 2

----------------------------------------------------------------------------
(* Characters, in code point order *)
Ascii ==
    <<" ", "!", "-", ".", "/",
      "0", "1", "2", "3", "4", "5", "6", "7", "8", "9",
      "A", "B", "C", "D", "E", "F", "G", "H", "I", "J", "K", "L", "M",
      "N", "O", "P", "Q", "R", "S", "T", "U", "V", "W", "X", "Y", "Z",
      "_",
      "a", "b", "c", "d", "e", "f", "g", "h", "i", "j", "k", "l", "m",
      "n", "o", "p", "q", "r", "s", "t", "u", "v", "w", "x", "y", "z">>

Ord(c) == CHOOSE i \in 1..Len(Ascii) : Ascii[i] = c

Digit == {Ascii[i] : i \in 6..15}
UpperCase == {Ascii[i] : i \in 16..41}
LowerCase == {Ascii[i] : i \in 43..68}

\* str.lower() on one character
LowerChar(c) == IF c \in UpperCase THEN Ascii[Ord(c) + 27] ELSE c

\* str.upper() on one character
UpperChar(c) == IF c \in LowerCase THEN Ascii[Ord(c) - 27] ELSE c

\* str.lower()
Lower(s) == [i \in 1..Len(s) |-> LowerChar(s[i])]

\* s.replace(a, b) for single characters a, b
Replace(s, a, b) == [i \in 1..Len(s) |-> IF s[i] = a THEN b ELSE s[i]]

\* re.sub(r"[^...]", "", s): keep the characters of the class
RECURSIVE Keep(_, _)
Keep(s, class) ==
    IF s = <<>> THEN <<>>
    ELSE (IF Head(s) \in class THEN <<Head(s)>> ELSE <<>>) \o Keep(Tail(s), class)

\* re.sub(r"_+", "_", s)
RECURSIVE Collapse(_)
Collapse(s) ==
    IF Len(s) < 2 THEN s
    ELSE IF s[1] = "_" /\ s[2] = "_" THEN Collapse(Tail(s))
    ELSE <<Head(s)>> \o Collapse(Tail(s))

\* s.strip("_")
RECURSIVE Strip(_)
Strip(s) ==
    IF s = <<>> THEN s
    ELSE IF Head(s) = "_" THEN Strip(Tail(s))
    ELSE IF s[Len(s)] = "_" THEN Strip(SubSeq(s, 1, Len(s) - 1))
    ELSE s

\* s.rstrip("/")
RECURSIVE RStripSlash(_)
RStripSlash(s) ==
    IF s # <<>> /\ s[Len(s)] = "/" THEN RStripSlash(SubSeq(s, 1, Len(s) - 1)) ELSE s

\* s.rfind(c), 1-based; 0 when c does not occur
RFind(s, c) ==
    LET hits == {i \in 1..Len(s) : s[i] = c}
    IN IF hits = {} THEN 0 ELSE CHOOSE i \in hits : \A j \in hits : j <= i

\* s.split("/")
RECURSIVE Split(_)
Split(s) ==
    LET hits == {i \in 1..Len(s) : s[i] = "/"}
    IN IF hits = {} THEN <<s>>
       ELSE LET i == CHOOSE k \in hits : \A j \in hits : k <= j
            IN <<SubSeq(s, 1, i - 1)>> \o Split(SubSeq(s, i + 1, Len(s)))

\* PurePath.name: the last component, "" and "." components dropped
PathName(s) ==
    LET parts == SelectSeq(Split(s), LAMBDA p : p # <<>> /\ p # <<".">>)
    IN IF parts = <<>> THEN <<>> ELSE parts[Len(parts)]

\* whether PurePath splits the name n at its last dot: 0 < i < len(name) - 1
HasSuffix(n) == 1 < RFind(n, ".") /\ RFind(n, ".") < Len(n)

\* PurePath.suffix of a name
PathSuffix(n) == IF HasSuffix(n) THEN SubSeq(n, RFind(n, "."), Len(n)) ELSE <<>>

\* PurePath.stem of a name
PathStem(n) == IF HasSuffix(n) THEN SubSeq(n, 1, RFind(n, ".") - 1) ELSE n

StemClass == LowerCase \cup Digit \cup {"_", "-"}
SuffixClass == LowerCase \cup Digit \cup {"."}

\* SanitizeStem without the "file" fallback
SanitizeStemNoFallback(stem) ==
    Strip(Collapse(Keep(Replace(Lower(stem), " ", "_"), StemClass)))

SanitizeStem(stem) ==
    LET s == Strip(Collapse(Keep(Replace(Lower(stem), " ", "_"), StemClass)))
    IN IF s = <<>> THEN <<"f", "i", "l", "e">> ELSE s

SanitizeSuffix(suffix) == Keep(Lower(suffix), SuffixClass)

sanitize_filename(n) ==
    SanitizeStem(PathStem(PathName(n))) \o SanitizeSuffix(PathSuffix(PathName(n)))

sanitize_slug(s) ==
    LET t == Strip(Collapse(Keep(Replace(Lower(s), " ", "_"), LowerCase \cup Digit \cup {"_", "-"})))
    IN IF t = <<>> THEN <<"c", "a", "r", "o", "u", "s", "e", "l">> ELSE t

----------------------------------------------------------------------------
(* sanitize_filename on every string of at most MaxLen characters *)

InputChars == {"a", "B", "7", "_", "-", " ", "!", ".", "/"}

RECURSIVE Strings(_)
Strings(n) ==
    IF n = 0 THEN {<<>>}
    ELSE Strings(n - 1) \cup {Append(s, c) : s \in {t \in Strings(n - 1) : Len(t) = n - 1}, c \in InputChars}

InitSan ==
    /\ arg \in Strings(MaxLen)
    /\ res1 = <<>>
    /\ res2 = <<>>
    /\ pcSan = "input"

\* sanitize_filename(name)
SanitizeOnce ==
    /\ pcSan = "input"
    /\ res1' = sanitize_filename(arg)
    /\ pcSan' = "once"
    /\ UNCHANGED <<arg, res2>>

\* sanitize_filename(sanitize_filename(name))
SanitizeTwice ==
    /\ pcSan = "once"
    /\ res2' = sanitize_filename(res1)
    /\ pcSan' = "twice"
    /\ UNCHANGED <<arg, res1>>

----------------------------------------------------------------------------
(* unique_path *)

\* str(i) for i >= 0
RECURSIVE Str(_)
Str(i) == IF i < 10 THEN <<Ascii[6 + i]>> ELSE Str(i \div 10) \o <<Ascii[6 + (i % 10)]>>

\* f"{stem}_{i}{suffix}"
Candidate(n, i) == PathStem(n) \o <<"_">> \o Str(i) \o PathSuffix(n)

\* the while loop of unique_path, entered with counter i
RECURSIVE UniqueFrom(_, _, _)
UniqueFrom(exists, n, i) ==
    IF Candidate(n, i) \notin exists THEN Candidate(n, i) ELSE UniqueFrom(exists, n, i + 1)

\* unique_path that tries _1 only
UniquePathFirstOnly(exists, n) == IF n \notin exists THEN n ELSE Candidate(n, 1)

\* unique_path on the name n in a directory whose existing names are exists
unique_path(exists, n) == IF n \notin exists THEN n ELSE UniqueFrom(exists, n, 1)

----------------------------------------------------------------------------
(* rename_files *)

\* Path.exists() in place of Path.is_dir()
IsDirExists(kind) == kind # "missing"

\* Path.is_dir() of the photos folder
IsDir(kind) == kind = "dir"

\* one iteration of the for loop, on entry n of the listing
RenameOne(st, n) ==
    IF ~(n \in DOMAIN st.dir /\ st.dir[n] = "file") THEN st
    ELSE LET target == unique_path(DOMAIN st.dir, sanitize_filename(n))
         IN IF n = target THEN st
            ELSE [dir |-> [m \in (DOMAIN st.dir \ {n}) \cup {target} |->
                              IF m = target THEN "file" ELSE st.dir[m]],
                  log |-> st.log \cup {<<n, target>>}]

\* the for loop over the listing, visited in the given order
RECURSIVE RenameLoop(_, _)
RenameLoop(st, order) ==
    IF order = <<>> THEN st ELSE RenameLoop(RenameOne(st, Head(order)), Tail(order))

\* every order in which iterdir() can list the names of S
Orders(S) == {o \in [1..Cardinality(S) -> S] : \A i, j \in 1..Cardinality(S) : i # j => o[i] # o[j]}

\* the directory and the renames printed (old name, new name) after rename_files on directory d, listed in the given order
rename_files(d, order) == RenameLoop([dir |-> d, log |-> {}], order)

\* what rename_files can leave behind, over every listing order
RenameOutcomes(d) == {rename_files(d, order) : order \in Orders(DOMAIN d)}

----------------------------------------------------------------------------
(* build_carousel_html *)

\* os.path.basename(url)
Basename(url) == SubSeq(url, RFind(url, "/") + 1, Len(url))

\* str.title() of a string
TitleCase(s) ==
    [i \in 1..Len(s) |->
        IF i = 1 \/ s[i - 1] \notin (LowerCase \cup UpperCase)
        THEN UpperChar(s[i]) ELSE LowerChar(s[i])]

\* indicators that are all marked active
IndicatorsAllActive(image_urls) ==
    [k \in 1..Len(image_urls) |-> [slideTo |-> k - 1, active |-> TRUE]]

\* the indicator fragments: one <li> per url, data-slide-to = i, index 0 active
Indicators(image_urls) ==
    [k \in 1..Len(image_urls) |-> [slideTo |-> k - 1, active |-> (k - 1 = 0)]]

\* the slide fragments: one <div class="item"> per url, index 0 active
Slides(image_urls) ==
    [k \in 1..Len(image_urls) |->
        [active |-> (k - 1 = 0), src |-> image_urls[k], alt |-> Basename(image_urls[k])]]

build_carousel_html(image_urls, title, interval_ms) ==
    [kind |-> "html", title |-> title, interval |-> interval_ms,
     indicators |-> Indicators(image_urls), slides |-> Slides(image_urls)]

\* the content of a file that the program did not write
OldContent == [kind |-> "old", title |-> <<>>, interval |-> 0, indicators |-> <<>>, slides |-> <<>>]

----------------------------------------------------------------------------
(* parse_photos_to_carousel_html *)

\* x <= y for strings, by code point
RECURSIVE StrLeq(_, _)
StrLeq(x, y) ==
    IF x = <<>> THEN TRUE
    ELSE IF y = <<>> THEN FALSE
    ELSE IF Ord(Head(x)) < Ord(Head(y)) THEN TRUE
    ELSE IF Ord(Head(x)) > Ord(Head(y)) THEN FALSE
    ELSE StrLeq(Tail(x), Tail(y))

\* sorted(S, key=name)
RECURSIVE Sorted(_)
Sorted(S) ==
    IF S = {} THEN <<>>
    ELSE LET m == CHOOSE x \in S : \A y \in S : StrLeq(x, y)
         IN <<m>> \o Sorted(S \ {m})

DotPng == <<".", "p", "n", "g">>

\* the scan taken from the folder as it was before the rename pass
PngsStale(d) == Sorted({n \in DOMAIN dir : dir[n] = "file" /\ Lower(PathSuffix(n)) = <<".", "p", "n", "g">>})

\* [p for p in iterdir() if p.is_file() and p.suffix.lower() == ".png"], sorted by name
Pngs(d) == Sorted({n \in DOMAIN d : d[n] = "file" /\ Lower(PathSuffix(n)) = DotPng})

\* the directory that holds the photos folder, as given by the caller
PhotosParent == <<"p">>

\* (photos_folder / name).as_posix()
RelPath(folder, n) == PhotosParent \o <<"/">> \o folder \o <<"/">> \o n

\* repo_public_base_url.rstrip("/") + "/" + rel
ImageUrls(base, folder, pngs) ==
    [k \in 1..Len(pngs) |-> RStripSlash(base) \o <<"/">> \o RelPath(folder, pngs[k])]

\* output_carosels_dir, resolved
OutDir == << <<"o", "u", "t">> >>

\* out_dir / f"{slug}.html"
OutPath(slug) == Append(OutDir, slug \o <<".", "h", "t", "m", "l">>)

\* Path.resolve() of out_path, whose directory entry is entry
Resolve(path, entry) == IF entry.kind = "link" THEN entry.target ELSE path

\* PurePath.parents
Parents(path) == {SubSeq(path, 1, k) : k \in 0..(Len(path) - 1)}

\* the guard left out
EscapesNever(out_dir_resolved, out_path_resolved) == FALSE

\* the guard of "Refusing to write outside output directory."
Escapes(out_dir_resolved, out_path_resolved) ==
    out_dir_resolved \notin Parents(out_path_resolved) /\ out_path_resolved # out_dir_resolved

DefaultInterval == 4000

\* the outcome of one call: the error raised ("none": returned), and the filesystem after it
\* (st: what its call of rename_files leaves behind)
parse_photos_to_carousel_html(base, interval_ms, st) ==
    IF ~IsDir(photosKind)
    THEN [err |-> "ValueError", dir |-> dir, log |-> {}, outDirKind |-> outDirKind,
          outEntry |-> outEntry, outFiles |-> outFiles, ret |-> <<>>]
    ELSE LET image_urls == ImageUrls(base, folderName, Pngs(st.dir))
             slug == sanitize_slug(folderName)
             out_path == OutPath(slug)
             out_path_resolved == Resolve(out_path, outEntry)
             title == TitleCase(Replace(slug, "_", " "))
             html == build_carousel_html(image_urls, title, interval_ms)
             renamed == [err |-> "none", dir |-> st.dir, log |-> st.log, outDirKind |-> outDirKind,
                         outEntry |-> outEntry, outFiles |-> outFiles, ret |-> <<>>]
         IN IF outDirKind = "file"
            THEN [renamed EXCEPT !.err = "FileExistsError"]
            ELSE IF Escapes(OutDir, out_path_resolved)
            THEN [renamed EXCEPT !.err = "RuntimeError", !.outDirKind = "dir"]
            ELSE IF out_path_resolved = OutDir
            THEN [renamed EXCEPT !.err = "IsADirectoryError", !.outDirKind = "dir"]
            ELSE [renamed EXCEPT
                    !.outDirKind = "dir",
                    !.outEntry = IF outEntry.kind = "absent"
                                 THEN [kind |-> "file", target |-> <<>>] ELSE outEntry,
                    !.outFiles = [q \in DOMAIN outFiles \cup {out_path_resolved} |->
                                     IF q = out_path_resolved THEN html ELSE outFiles[q]],
                    !.ret = out_path]

----------------------------------------------------------------------------
(* The filesystem the calls run on *)

NameUpper == <<"A", ".", "p", "n", "g">>
NameBang == <<"a", "!", ".", "p", "n", "g">>
NameClean == <<"a", ".", "p", "n", "g">>
NameClean1 == <<"a", "_", "1", ".", "p", "n", "g">>
NameText == <<"b", ".", "t", "x", "t">>
NameSubdir == <<"d", ".", "p", "n", "g">>

PoolFiles == {NameUpper, NameBang, NameClean, NameClean1, NameText}
PoolDirs == {NameSubdir}

\* a directory holding the names of S
Listing(S) == [n \in S |-> IF n \in PoolDirs THEN "dir" ELSE "file"]

FolderNames == {<<"M", "y", " ", "_", "x">>, <<".", ".">>, <<"a", ".", "B">>}

LinkInside == Append(OutDir, <<"o", ".", "h", "t", "m", "l">>)
LinkOutside == << <<"e", "t", "c">>, <<"p", "w">> >>
LinkTargets == {LinkInside, LinkOutside, OutDir, <<>>}

Entries ==
    {[kind |-> "absent", target |-> <<>>], [kind |-> "file", target |-> <<>>]}
        \cup {[kind |-> "link", target |-> t] : t \in LinkTargets}

\* the regular files that exist under and outside the output directory
ExistingFiles(folder, entry) ==
    IF entry.kind = "file" THEN {OutPath(sanitize_slug(folder))}
    ELSE IF entry.kind = "link" /\ entry.target \in {LinkInside, LinkOutside} THEN {entry.target}
    ELSE {}

Snapshot == [dir |-> dir, outDirKind |-> outDirKind, outEntry |-> outEntry, outFiles |-> outFiles]

Bases == {<<"h", "/", "/">>, <<"h">>}
Intervals == {DefaultInterval, 1234}

InitFs ==
    /\ photosKind \in {"dir", "file", "missing"}
    /\ dir \in {Listing(S) : S \in {T \in SUBSET (PoolFiles \cup PoolDirs) : Cardinality(T) <= MaxFiles}}
    /\ photosKind # "dir" => dir = Listing({})
    /\ folderName \in FolderNames
    /\ outDirKind \in {"missing", "file", "dir"}
    /\ outEntry \in Entries
    /\ outDirKind # "dir" => outEntry.kind = "absent"
    /\ outFiles = [q \in ExistingFiles(folderName, outEntry) |-> OldContent]
    /\ op = "none"
    /\ err = "none"
    /\ ret = <<>>
    /\ pre = Snapshot
    /\ log = {}
    /\ calls = 0

\* rename_files(photos_folder)
RenameFilesCall ==
    /\ calls < MaxCalls
    /\ calls' = calls + 1
    /\ op' = "rename_files"
    /\ pre' = Snapshot
    /\ ret' = <<>>
    /\ IF ~IsDir(photosKind)
       THEN /\ err' = "ValueError"
            /\ log' = {}
            /\ dir' = dir
       ELSE \E st \in RenameOutcomes(dir) :
                  /\ err' = "none"
                  /\ log' = st.log
                  /\ dir' = st.dir
    /\ UNCHANGED <<photosKind, folderName, outDirKind, outEntry, outFiles>>

\* parse_photos_to_carousel_html(photos_folder, base, OutDir, interval_ms)
ParseCall ==
    /\ calls < MaxCalls
    /\ calls' = calls + 1
    /\ op' = "parse"
    /\ pre' = Snapshot
    /\ \E st \in RenameOutcomes(dir) : \E base \in Bases, interval_ms \in Intervals :
          \E r \in {parse_photos_to_carousel_html(base, interval_ms, st)} :
             /\ err' = r.err
             /\ log' = r.log
             /\ ret' = r.ret
             /\ dir' = r.dir
             /\ outDirKind' = r.outDirKind
             /\ outEntry' = r.outEntry
             /\ outFiles' = r.outFiles
    /\ UNCHANGED <<photosKind, folderName>>

Init ==
    /\ InitFs
    /\ arg = <<>> /\ res1 = <<>> /\ res2 = <<>> /\ pcSan = "off"
    /\ upExists = {} /\ upTarget = <<>> /\ upResult = <<>> /\ pcUp = "off"

Next ==
    \/ RenameFilesCall /\ UNCHANGED <<sanVars, upVars>>
    \/ ParseCall /\ UNCHANGED <<sanVars, upVars>>

Spec == Init /\ [][Next]_vars

----------------------------------------------------------------------------
(* sanitize_filename alone *)

InitSanitize ==
    /\ InitSan
    /\ upExists = {} /\ upTarget = <<>> /\ upResult = <<>> /\ pcUp = "off"
    /\ photosKind = "missing" /\ dir = Listing({}) /\ folderName = <<>>
    /\ outDirKind = "missing" /\ outEntry = [kind |-> "absent", target |-> <<>>]
    /\ outFiles = [q \in {} |-> OldContent]
    /\ op = "none" /\ err = "none" /\ ret = <<>> /\ pre = Snapshot /\ log = {} /\ calls = 0

NextSanitize ==
    \/ SanitizeOnce /\ UNCHANGED <<upVars, fsVars, callVars>>
    \/ SanitizeTwice /\ UNCHANGED <<upVars, fsVars, callVars>>

SpecSanitize == InitSanitize /\ [][NextSanitize]_vars

----------------------------------------------------------------------------
(* unique_path alone *)

UpTargets ==
    {NameClean, <<"a", ".">>, <<".", "b">>, <<"a">>}

UpOther == <<"z">>

InitUnique ==
    /\ upTarget \in UpTargets
    /\ upExists \in SUBSET ({upTarget, UpOther} \cup {Candidate(upTarget, i) : i \in 1..MaxCollide})
    /\ upResult = <<>>
    /\ pcUp = "call"
    /\ arg = <<>> /\ res1 = <<>> /\ res2 = <<>> /\ pcSan = "off"
    /\ photosKind = "missing" /\ dir = Listing({}) /\ folderName = <<>>
    /\ outDirKind = "missing" /\ outEntry = [kind |-> "absent", target |-> <<>>]
    /\ outFiles = [q \in {} |-> OldContent]
    /\ op = "none" /\ err = "none" /\ ret = <<>> /\ pre = Snapshot /\ log = {} /\ calls = 0

\* unique_path(parent / upTarget)
UniquePathCall ==
    /\ pcUp = "call"
    /\ upResult' = unique_path(upExists, upTarget)
    /\ pcUp' = "returned"
    /\ UNCHANGED <<upExists, upTarget>>

NextUnique == UniquePathCall /\ UNCHANGED <<sanVars, fsVars, callVars>>

SpecUnique == InitUnique /\ [][NextUnique]_vars

----------------------------------------------------------------------------
(* Properties *)

ClaimStemChars == LowerCase \cup Digit \cup {"_", "-"}
ClaimExtChars == LowerCase \cup Digit \cup {"."}

\* s matches ^[a-z0-9_-]+\.[a-z0-9.]*$ or ^[a-z0-9_-]+$
WellFormed(s) ==
    \E k \in 1..Len(s) :
        /\ \A i \in 1..k : s[i] \in ClaimStemChars
        /\ \/ k = Len(s)
           \/ /\ s[k + 1] = "."
              /\ \A i \in (k + 1)..Len(s) : s[i] \in ClaimExtChars

\* C2: for every input string, sanitize_filename returns a name made of a non-empty
\* stem over [a-z0-9_-], optionally followed by a dot and characters of [a-z0-9.].
C2_SanitizedWellFormed == pcSan \in {"once", "twice"} => WellFormed(res1)

\* an input of special characters only has been sanitized to the fallback stem
C2_Witness ==
    /\ pcSan = "once"
    /\ arg = <<"!", "!">>
    /\ res1 = <<"f", "i", "l", "e">>

\* C3: sanitize_filename is idempotent: sanitizing a sanitized name returns it unchanged.
C3_SanitizeIdempotent == pcSan = "twice" => res2 = res1

\* C4: unique_path returns a name that does not exist; the target itself when it does
\* not exist, and otherwise stem_N + extension for the smallest N >= 1 that is free.
C4_UniquePathFirstFree ==
    pcUp = "returned" =>
        /\ upResult \notin upExists
        /\ upTarget \notin upExists => upResult = upTarget
        /\ upTarget \in upExists =>
              \E N \in 1..Cardinality(upExists) :
                  /\ upResult = Candidate(upTarget, N)
                  /\ \A k \in 1..(N - 1) : Candidate(upTarget, k) \in upExists

\* the target and its _1 and _2 variants exist, and unique_path has returned _3
C4_Witness ==
    /\ pcUp = "returned"
    /\ upTarget \in upExists
    /\ Candidate(upTarget, 1) \in upExists
    /\ Candidate(upTarget, 2) \in upExists
    /\ upResult = Candidate(upTarget, 3)

\* the regular files of a directory
Files(d) == {n \in DOMAIN d : d[n] = "file"}

\* every regular file's name equals its own sanitized name
AllSanitized(d) == \A n \in Files(d) : sanitize_filename(n) = n

\* C1: rename_files on a directory whose files are all already sanitized performs no
\* rename and leaves the set of names as it was.
C1_RenameIdempotent ==
    (op = "rename_files" /\ err = "none" /\ AllSanitized(pre.dir)) =>
        (log = {} /\ dir = pre.dir)

\* C5: rename_files keeps the number of regular files, and two files whose different
\* names sanitize to the same name s (neither named s) end as one file named s and one
\* file named s with the suffix _1.
C5_NoLossAndFirstSuffix ==
    (op = "rename_files" /\ err = "none") =>
        /\ Cardinality(Files(dir)) = Cardinality(Files(pre.dir))
        /\ \A x, y \in Files(pre.dir) :
              (/\ x # y
               /\ sanitize_filename(x) = sanitize_filename(y)
               /\ x # sanitize_filename(x)
               /\ y # sanitize_filename(y))
              => /\ sanitize_filename(x) \in Files(dir)
                 /\ Candidate(sanitize_filename(x), 1) \in Files(dir)

\* the regular files whose name ends in .png
Qualifying(d) ==
    {n \in Files(d) :
        Len(n) >= 4 /\ SubSeq(n, Len(n) - 3, Len(n)) = <<".", "p", "n", "g">>}

\* the document the last successful call wrote
Written == outFiles[Resolve(ret, outEntry)]

ParseReturned == op = "parse" /\ err = "none"

\* C6: the output has one slide and one indicator per qualifying file; with at least
\* one file exactly the slide and the indicator at index 0 are active; with none there
\* is no fragment, and emission succeeds whenever the output location is writable.
C6_FragmentCounts ==
    /\ ParseReturned =>
          /\ Written.kind = "html"
          /\ Len(Written.slides) = Cardinality(Qualifying(dir))
          /\ Len(Written.indicators) = Cardinality(Qualifying(dir))
          /\ {k \in 1..Len(Written.slides) : Written.slides[k].active}
                = (IF Qualifying(dir) = {} THEN {} ELSE {1})
          /\ {k \in 1..Len(Written.indicators) : Written.indicators[k].active}
                = (IF Qualifying(dir) = {} THEN {} ELSE {1})
    /\ (/\ op = "parse"
        /\ photosKind = "dir"
        /\ pre.outDirKind # "file"
        /\ pre.outEntry.kind # "link") => err = "none"

\* a call has emitted three slides and three indicators
C6_Witness ==
    /\ ParseReturned
    /\ Len(Written.slides) = 3
    /\ Len(Written.indicators) = 3

\* a call on a folder without qualifying files has emitted an empty carousel
C6_WitnessEmpty ==
    /\ ParseReturned
    /\ Files(dir) # {}
    /\ Written.slides = <<>>

\* path is the output directory or lies under it
IsUnder(path) == Len(path) >= Len(OutDir) /\ SubSeq(path, 1, Len(OutDir)) = OutDir

\* C7: no call writes a document to a resolved path outside the output directory, and
\* a call that returns has written at a path equal to or under it.
C7_WritesStayInside ==
    /\ \A q \in DOMAIN outFiles : outFiles[q].kind = "html" => IsUnder(q)
    /\ ParseReturned => IsUnder(Resolve(ret, outEntry))

\* a call has written through a symbolic link that resolves inside the output directory
C7_Witness ==
    /\ ParseReturned
    /\ outEntry.kind = "link"
    /\ outFiles[LinkInside].kind = "html"

\* C8: when the output path resolves outside the output directory the call fails with
\* the security error and the filesystem, photos folder included, is as before the call.
C8_RefusalLeavesNoTrace ==
    (op = "parse" /\ err = "RuntimeError") =>
        /\ outFiles = pre.outFiles
        /\ outDirKind = pre.outDirKind
        /\ dir = pre.dir

\* the last len characters of s
Ending(s, len) == SubSeq(s, Len(s) - len + 1, Len(s))

\* C9: the slides are the .png files of the folder as renamed, in ascending order of
\* name; slide i goes with indicator data-slide-to = i; every url names a file that
\* exists in the folder when the call ends.
C9_SlidesFollowRenamedFolder ==
    ParseReturned =>
        /\ {Written.slides[k].alt : k \in 1..Len(Written.slides)} = Qualifying(dir)
        /\ Len(Written.slides) = Cardinality(Qualifying(dir))
        /\ \A i, j \in 1..Len(Written.slides) :
              i < j => /\ StrLeq(Written.slides[i].alt, Written.slides[j].alt)
                       /\ Written.slides[i].alt # Written.slides[j].alt
        /\ \A k \in 1..Len(Written.slides) :
              /\ Written.indicators[k].slideTo = k - 1
              /\ Written.slides[k].alt \in Files(dir)
              /\ Len(Written.slides[k].src) > Len(RelPath(folderName, Written.slides[k].alt))
              /\ Ending(Written.slides[k].src, Len(RelPath(folderName, Written.slides[k].alt)) + 1)
                    = <<"/">> \o RelPath(folderName, Written.slides[k].alt)

\* a call has renamed files and emitted slides for the renamed names
C9_Witness ==
    /\ ParseReturned
    /\ log # {}
    /\ Len(Written.slides) >= 2
    /\ \E r \in log : r[2] = Written.slides[1].alt

\* C10: when the photos path is not a directory, rename_files and
\* parse_photos_to_carousel_html raise ValueError and change nothing.
C10_NotADirectoryFails ==
    (op \in {"rename_files", "parse"} /\ photosKind # "dir") =>
        /\ err = "ValueError"
        /\ log = {}
        /\ dir = pre.dir
        /\ outDirKind = pre.outDirKind
        /\ outEntry = pre.outEntry
        /\ outFiles = pre.outFiles

\* parse_photos_to_carousel_html has failed on a missing folder without creating the output directory
C10_Witness ==
    /\ op = "parse"
    /\ photosKind = "missing"
    /\ err = "ValueError"
    /\ outDirKind = "missing"

====
